---------------------------- MODULE Spec2Model ----------------------------
(***************************************************************************)
(* gh-release: an interactive command that drafts a GitHub release.        *)
(* The model follows src/main.go (lines 1-408, the revision with the       *)
(* Client wrapper).  Texts are sequences of one-character strings, so      *)
(* that splitting, trimming, joining and formatting are computed and not   *)
(* assumed.  The empty string "" of the program is the empty sequence.     *)
(***************************************************************************)
EXTENDS Integers, Sequences, FiniteSets, TLC

VARIABLES
    pc,        \* position of the one run inside main / do
    outcome,   \* how the run ended: Running, Submitted, Aborted, Failed, Crashed
    ret,       \* the error do returned to main, or Nil
    trace,     \* the remote calls, prompts and editor launches so far, in order
    env,       \* what the local collaborators gave: token, owner, repo, head
    gor,       \* getBranchesAndReleases: the two goroutines' positions and locals
    err,       \* getBranchesAndReleases: the shared variable err (nil or an error)
    latest,    \* the latest release (its tag name), or Nil
    branches,  \* the branch names as listed, then as sorted
    target,    \* the selected branch name, or Nil
    version,   \* the suggested next tag
    compare,   \* the comparison: [Status, Commits], or Nil
    tagName,   \* the tag entered at the prompt
    data,      \* the scratch file as read back after the editor exited, or Nil
    msg,       \* the result of ed.edit: [panic, title, body], or Nil
    release,   \* the release handed to createRelease, or Nil
    fin,       \* function bench: the input drawn for one pure function
    fout       \* function bench: its result

runVars == <<pc, outcome, ret, trace, env, gor, err, latest, branches, target,
             version, compare, tagName, data, msg, release>>
fnVars == <<fin, fout>>
vars == <<pc, outcome, ret, trace, env, gor, err, latest, branches, target,
          version, compare, tagName, data, msg, release, fin, fout>>

Nil == [nil |-> TRUE]
NL == "\n"

(***************************************************************************)
(* Bounds of the model.                                                    *)
(***************************************************************************)
MaxLen == 5        \* longest edited text of the function bench
MaxRunLen == 3     \* longest edited text inside a whole run
MaxDigits == 2     \* most digits of the patch component of a tag
MaxBranches == 3   \* most branches in a list handed to sortBranches
MaxCommits == 2    \* most commits in a list handed to releaseNotes
MaxRunBranches == 2  \* most branches the remote lists inside a whole run
MaxConfigLines == 3  \* most lines of a ~/.gitconfig

(***************************************************************************)
(* Go's strings package, on sequences of characters.                       *)
(***************************************************************************)
HasPrefix(s, p) == Len(s) >= Len(p) /\ SubSeq(s, 1, Len(p)) = p

TrimPrefix(s, p) == IF HasPrefix(s, p) THEN SubSeq(s, Len(p) + 1, Len(s)) ELSE s

IndexOf(s, c) ==
    IF \E i \in 1..Len(s) : s[i] = c
    THEN CHOOSE i \in 1..Len(s) : s[i] = c /\ \A j \in 1..(i - 1) : s[j] # c
    ELSE 0

RECURSIVE Split(_, _)
Split(s, sep) ==
    LET i == IndexOf(s, sep)
    IN  IF i = 0 THEN <<s>>
        ELSE <<SubSeq(s, 1, i - 1)>> \o Split(SubSeq(s, i + 1, Len(s)), sep)

RECURSIVE Join(_, _)
Join(a, sep) ==
    IF Len(a) = 0 THEN <<>>
    ELSE IF Len(a) = 1 THEN a[1]
    ELSE a[1] \o <<sep>> \o Join(Tail(a), sep)

(***************************************************************************)
(* editor.edit, after the file is read back: the comment filter and the    *)
(* split into title and body.  newLines := lines[:0] shares the backing    *)
(* array of lines, so the filter writes into the array it is reading.      *)
(***************************************************************************)
isComment(line) == HasPrefix(TrimPrefix(line, <<" ">>), <<"#">>)

\* the filter with break in the place of continue
RECURSIVE filterLinesBreak(_, _, _)
filterLinesBreak(arr, i, n) ==
    IF i > Len(arr) THEN SubSeq(arr, 1, n)
    ELSE LET line == arr[i]
         IN  IF isComment(line) THEN SubSeq(arr, 1, n)
             ELSE filterLinesBreak([arr EXCEPT ![n + 1] = line], i + 1, n + 1)

RECURSIVE filterLines(_, _, _)
filterLines(arr, i, n) ==
    IF i > Len(arr) THEN SubSeq(arr, 1, n)
    ELSE LET line == arr[i]
         IN  IF isComment(line) THEN filterLines(arr, i + 1, n)
             ELSE filterLines([arr EXCEPT ![n + 1] = line], i + 1, n + 1)

\* newLines[0] and newLines[1:] panic (index out of range) on an empty slice
parseReleaseMsg(bytes) ==
    LET lines == Split(bytes, NL)
        newLines == filterLines(lines, 1, 0)
    IN  IF Len(newLines) = 0
        THEN [panic |-> TRUE, title |-> <<>>, body |-> <<>>]
        ELSE [panic |-> FALSE, title |-> newLines[1],
              body |-> Join(Tail(newLines), NL)]

(***************************************************************************)
(* releaseNotes: the commented template handed to the editor.              *)
(***************************************************************************)
templateBody ==
<<
    "#", "\n",
    "#", " ", "P", "l", "e", "a", "s", "e", " ", "e", "n", "t", "e", "r", " ", "t", "h", "e", " ", "r", "e", "a", "l", "e", "a", "s", "e", " ", "t", "i", "t", "l", "e", " ", "a", "s", " ", "t", "h", "e", " ", "f", "i", "r", "s", "t", " ", "l", "i", "n", "e", ".", " ", "L", "i", "n", "e", "s", " ", "s", "t", "a", "r", "t", "i", "n", "g", "\n",
    "#", " ", "w", "i", "t", "h", " ", "'", "#", "'", " ", "w", "i", "l", "l", " ", "b", "e", " ", "i", "g", "n", "o", "r", "e", "d", ",", " ", "a", "n", "d", " ", "a", "n", " ", "e", "m", "p", "t", "y", " ", "t", "i", "t", "l", "e", " ", "&", " ", "m", "e", "s", "s", "a", "g", "e", " ", "a", "b", "o", "r", "t", "s", " ", "t", "h", "e", " ", "o", "p", "e", "r", "a", "t", "i", "o", "n", ".", "\n",
    "#", " ", "B", "y", " ", "r", "e", "m", "o", "v", "i", "n", "g", " ", "s", "t", "a", "r", "t", "i", "n", "g", " ", "'", "#", "'", " ", "o", "f", " ", "l", "i", "n", "e", "s", " ", "b", "e", "l", "o", "w", ",", " ", "y", "o", "u", " ", "c", "a", "n", " ", "p", "u", "t", " ", "t", "h", "e", "m", " ", "i", "n", " ", "r", "e", "l", "e", "a", "s", "e", " ", "b", "o", "d", "y", ".", "\n",
    "#", "\n",
    "#", "*", "*", "C", "o", "m", "m", "i", "t", "s", "*", "*", "\n",
    "#", "\n"
>>

\* one line of the commit list: "#* [<SHA>] - <first line of message> (<author>)\n"
commitLineBare(c) ==
    <<"*", " ", "[">> \o c.SHA \o <<"]", " ", "-", " ">>
        \o Split(c.Message, NL)[1] \o <<" ", "(">> \o c.Author \o <<")", NL>>

commitLine(c) ==
    <<"#", "*", " ", "[">> \o c.SHA \o <<"]", " ", "-", " ">>
        \o Split(c.Message, NL)[1] \o <<" ", "(">> \o c.Author \o <<")", NL>>

\* the loop running upwards: for i := 0; i < len(commits); i++
RECURSIVE commitNotesAscending(_, _)
commitNotesAscending(commits, i) ==
    IF i < 1 THEN <<>>
    ELSE commitNotesAscending(commits, i - 1) \o commitLine(commits[i])

\* for i := len(commits) - 1; i >= 0; i-- { notes += ... }
RECURSIVE commitNotes(_, _)
commitNotes(commits, i) ==
    IF i < 1 THEN <<>> ELSE commitLine(commits[i]) \o commitNotes(commits, i - 1)

releaseNotes(title, commits) ==
    <<"#">> \o title \o <<NL>> \o templateBody \o commitNotes(commits, Len(commits))

(***************************************************************************)
(* The suggested next tag (do, lines 128-137): semver.Make of the tag       *)
(* without the prefix "v", Patch++, String(), the prefix put back.          *)
(* semver.Make and Version.String are those of github.com/blang/semver.     *)
(* Patch is a uint64 and wraps at 2^64 - 1; the tags of the model stay far  *)
(* below that.                                                              *)
(***************************************************************************)
tagPrefix == <<"v">>

Numbers == {"0", "1", "2", "3", "4", "5", "6", "7", "8", "9"}
Alphanum == Numbers \cup {"a", "b", "v", "-"}

digitVal(c) ==
    CASE c = "0" -> 0 [] c = "1" -> 1 [] c = "2" -> 2 [] c = "3" -> 3
      [] c = "4" -> 4 [] c = "5" -> 5 [] c = "6" -> 6 [] c = "7" -> 7
      [] c = "8" -> 8 [] c = "9" -> 9

digitChar(d) ==
    CASE d = 0 -> "0" [] d = 1 -> "1" [] d = 2 -> "2" [] d = 3 -> "3"
      [] d = 4 -> "4" [] d = 5 -> "5" [] d = 6 -> "6" [] d = 7 -> "7"
      [] d = 8 -> "8" [] d = 9 -> "9"

containsOnly(s, set) == \A i \in 1..Len(s) : s[i] \in set

hasLeadingZeroes(s) == Len(s) > 1 /\ s[1] = "0"

RECURSIVE parseUint(_)
parseUint(s) ==
    IF Len(s) = 0 THEN 0
    ELSE parseUint(SubSeq(s, 1, Len(s) - 1)) * 10 + digitVal(s[Len(s)])

RECURSIVE formatUint(_)
formatUint(n) ==
    IF n < 10 THEN <<digitChar(n)>>
    ELSE formatUint(n \div 10) \o <<digitChar(n % 10)>>

\* a major, minor or patch component that Parse accepts
numberOk(s) == Len(s) > 0 /\ containsOnly(s, Numbers) /\ ~hasLeadingZeroes(s)

\* NewPRVersion on one dot-separated part of the prerelease
prOk(s) ==
    /\ Len(s) > 0
    /\ containsOnly(s, Alphanum)
    /\ (containsOnly(s, Numbers) => ~hasLeadingZeroes(s))

\* one dot-separated part of the build metadata
buildOk(s) == Len(s) > 0 /\ containsOnly(s, Alphanum)

semverError == [ok |-> FALSE, Major |-> 0, Minor |-> 0, Patch |-> 0,
                Pre |-> <<>>, Build |-> <<>>]

semverMake(s) ==
    LET i1 == IndexOf(s, ".")
        rest1 == SubSeq(s, i1 + 1, Len(s))
        i2 == IndexOf(rest1, ".")
        major == SubSeq(s, 1, i1 - 1)
        minor == SubSeq(rest1, 1, i2 - 1)
        patch0 == SubSeq(rest1, i2 + 1, Len(rest1))
        bi == IndexOf(patch0, "+")
        build == IF bi = 0 THEN <<>>
                 ELSE Split(SubSeq(patch0, bi + 1, Len(patch0)), ".")
        patch1 == IF bi = 0 THEN patch0 ELSE SubSeq(patch0, 1, bi - 1)
        pi == IndexOf(patch1, "-")
        pre == IF pi = 0 THEN <<>>
               ELSE Split(SubSeq(patch1, pi + 1, Len(patch1)), ".")
        patch == IF pi = 0 THEN patch1 ELSE SubSeq(patch1, 1, pi - 1)
    IN  IF Len(s) = 0 \/ i1 = 0 \/ i2 = 0 THEN semverError
        ELSE IF ~(numberOk(major) /\ numberOk(minor) /\ numberOk(patch))
        THEN semverError
        ELSE IF \E k \in 1..Len(pre) : ~prOk(pre[k]) THEN semverError
        ELSE IF \E k \in 1..Len(build) : ~buildOk(build[k]) THEN semverError
        ELSE [ok |-> TRUE, Major |-> parseUint(major), Minor |-> parseUint(minor),
              Patch |-> parseUint(patch), Pre |-> pre, Build |-> build]

semverString(v) ==
    formatUint(v.Major) \o <<".">> \o formatUint(v.Minor) \o <<".">>
        \o formatUint(v.Patch)
        \o (IF Len(v.Pre) > 0 THEN <<"-">> \o Join(v.Pre, ".") ELSE <<>>)
        \o (IF Len(v.Build) > 0 THEN <<"+">> \o Join(v.Build, ".") ELSE <<>>)

\* the next tag with the prefix put back unconditionally
nextVersionAlwaysPrefixed(lastRel) ==
    LET v == semverMake(TrimPrefix(lastRel, tagPrefix))
        bumped == [v EXCEPT !.Patch = @ + 1]
    IN  IF ~v.ok THEN [panic |-> TRUE, version |-> <<>>]
        ELSE [panic |-> FALSE, version |-> tagPrefix \o semverString(bumped)]

\* panic(err) when the tag is no semantic version
nextVersion(lastRel) ==
    LET v == semverMake(TrimPrefix(lastRel, tagPrefix))
        bumped == [v EXCEPT !.Patch = @ + 1]
    IN  IF ~v.ok THEN [panic |-> TRUE, version |-> <<>>]
        ELSE [panic |-> FALSE,
              version |-> (IF HasPrefix(lastRel, tagPrefix) THEN tagPrefix ELSE <<>>)
                              \o semverString(bumped)]

(***************************************************************************)
(* sortBranches: sort.Slice with the key "0 for head, else the length of   *)
(* the name".  sort.Slice promises an order that agrees with less and      *)
(* nothing about equal keys.  For a slice of at most 12 elements the       *)
(* library runs, depending on the Go release the program is built with,    *)
(* either a pass of Shell sort with gap 6 followed by insertion sort       *)
(* (Go 1.8 to 1.18) or insertion sort alone (Go 1.19 and later); both are  *)
(* results of the call.  For longer slices every order that agrees with    *)
(* less is taken as possible.                                              *)
(***************************************************************************)
\* the key without the special case of the current branch
sortKeyLengthOnly(name, head) == Len(name)

sortKey(name, head) == IF name = head THEN 0 ELSE Len(name)

less(a, b, head) == sortKey(a, head) < sortKey(b, head)

Perms(bs) ==
    {p \in [1..Len(bs) -> {bs[i] : i \in 1..Len(bs)}] :
        \A i, j \in 1..Len(bs) : i # j => p[i] # p[j]}

\* data[i], data[j] = data[j], data[i]
swap(s, i, j) == [s EXCEPT ![i] = s[j], ![j] = s[i]]

\* for j := i; j > a && less(j, j-1); j-- { swap(j, j-1) }
RECURSIVE insertDown(_, _, _)
insertDown(s, j, head) ==
    IF j > 1 /\ less(s[j], s[j - 1], head)
    THEN insertDown(swap(s, j, j - 1), j - 1, head)
    ELSE s

\* insertion sort of the library, from element i on
RECURSIVE insertionSort(_, _, _)
insertionSort(s, i, head) ==
    IF i > Len(s) THEN s
    ELSE insertionSort(insertDown(s, i, head), i + 1, head)

\* the pass of Shell sort with gap 6, from element i on
RECURSIVE shellPass(_, _, _)
shellPass(s, i, head) ==
    IF i > Len(s) THEN s
    ELSE shellPass(IF less(s[i], s[i - 6], head) THEN swap(s, i, i - 6) ELSE s,
                   i + 1, head)

\* sort.Slice(branches, less): the orders the call can leave the slice in
sortBranches(bs, head) ==
    IF Len(bs) <= 12
    THEN {insertionSort(bs, 2, head),
          insertionSort(shellPass(bs, 7, head), 2, head)}
    ELSE {p \in Perms(bs) :
             \A i, j \in 1..Len(bs) : i < j => ~less(p[j], p[i], head)}

(***************************************************************************)
(* ~/.gitconfig: parseSection, parseValue, parseConfig.                    *)
(***************************************************************************)
\* \w of the regular expressions
wordChars ==
    Numbers \cup {"_"} \cup
    {"a", "b", "c", "d", "e", "f", "g", "h", "i", "j", "k", "l", "m", "n",
     "o", "p", "q", "r", "s", "t", "u", "v", "w", "x", "y", "z"} \cup
    {"A", "B", "C", "D", "E", "F", "G", "H", "I", "J", "K", "L", "M", "N",
     "O", "P", "Q", "R", "S", "T", "U", "V", "W", "X", "Y", "Z"}

\* \s of the regular expressions
spaceChars == {" ", "\t", NL, "\f", "\r"}

\* how many characters of the class follow from position i on (greedy + or *)
RECURSIVE runLen(_, _, _)
runLen(s, i, class) ==
    IF i <= Len(s) /\ s[i] \in class THEN 1 + runLen(s, i + 1, class) ELSE 0

\* reSection = ^\[(\w+)\]
parseSection(line) ==
    IF Len(line) >= 1 /\ line[1] = "["
    THEN LET n == runLen(line, 2, wordChars)
         IN  IF n >= 1 /\ Len(line) >= n + 2 /\ line[n + 2] = "]"
             THEN SubSeq(line, 2, n + 1)
             ELSE <<>>
    ELSE <<>>

\* reVal = ^\s+(\w+)\s*=\s*(.*)$
parseValue(line) ==
    LET a == runLen(line, 1, spaceChars)
        b == runLen(line, a + 1, wordChars)
        c == runLen(line, a + b + 1, spaceChars)
        eq == a + b + c + 1
        d == runLen(line, eq + 1, spaceChars)
    IN  IF a >= 1 /\ b >= 1 /\ eq <= Len(line) /\ line[eq] = "="
        THEN [key |-> SubSeq(line, a + 1, a + b),
              val |-> SubSeq(line, eq + d + 1, Len(line))]
        ELSE [key |-> <<>>, val |-> <<>>]

\* m[k] = v of a Go map
mapPut(m, k, v) == [x \in (DOMAIN m) \cup {k} |-> IF x = k THEN v ELSE m[x]]

\* m[k] of a Go map: the zero value when the key is absent
mapGet(m, k) == IF k \in DOMAIN m THEN m[k] ELSE <<>>

\* make(map[string]string)
emptyMap == [x \in {} |-> <<>>]

\* the loop of parseConfig over the lines
RECURSIVE parseConfigLines(_, _, _, _)
parseConfigLines(lines, i, section, config) ==
    IF i > Len(lines) THEN config
    ELSE LET kv == parseValue(lines[i])
             sec == parseSection(lines[i])
         IN  IF section # <<>> /\ kv.key # <<>>
             THEN parseConfigLines(lines, i + 1, section,
                      mapPut(config, section,
                             mapPut(config[section], kv.key, kv.val)))
             ELSE parseConfigLines(lines, i + 1, sec,
                      IF sec # <<>> THEN mapPut(config, sec, emptyMap)
                      ELSE config)

github == <<"g", "i", "t", "h", "u", "b">>

\* parseConfig: user and token of the [github] section
parseConfig(bytes) ==
    LET config == parseConfigLines(Split(bytes, NL), 1, <<>>, emptyMap)
    IN  IF github \notin DOMAIN config
        THEN [user |-> <<>>, token |-> <<>>]
        ELSE [user |-> mapGet(config[github], <<"u", "s", "e", "r">>),
              token |-> mapGet(config[github], <<"t", "o", "k", "e", "n">>)]

(***************************************************************************)
(* The function bench: one input is drawn, the function it belongs to is   *)
(* applied once.                                                           *)
(***************************************************************************)
None == [kind |-> "none"]

EditChars == {"#", " ", "a", NL}
Texts(n) == UNION {[1..k -> EditChars] : k \in 0..n}

ParseInputs == {[kind |-> "parse", text |-> t] : t \in Texts(MaxLen)}

\* commits as the compare call returns them: SHA, Commit.Message, Commit.Author.Name
BenchCommits ==
    {[SHA |-> <<"a", "1">>, Message |-> m, Author |-> <<"A">>] :
        m \in {<<"F", "i", "x">>, <<"a", NL, "b">>, <<NL, "b">>, <<>>, <<"#">>}}

CommitLists(n) == UNION {[1..k -> BenchCommits] : k \in 0..n}

BenchTitles == {<<>>, <<"v", "1", ".", "0", ".", "1">>, <<"#">>, <<" ">>, <<"a">>}

NotesInputs ==
    {[kind |-> "notes", title |-> t, commits |-> cs] :
        t \in BenchTitles, cs \in CommitLists(MaxCommits)}

PatchDigits == {"0", "1", "9"}
PatchStrs == UNION {[1..k -> PatchDigits] : k \in 1..MaxDigits}
MajorMinorStrs == {<<"0">>, <<"1">>, <<"2">>, <<"1", "0">>, <<"0", "1">>}
Prefixes == {<<>>, <<"v">>}
Suffixes == {<<>>, <<"-", "b">>, <<"+", "1">>, <<"-", "b", "+", "1">>,
             <<"-">>, <<"-", "0", "1">>}

VersionInputs ==
    {[kind |-> "version", pfx |-> p, major |-> a, minor |-> b, patch |-> c,
      suffix |-> x, tag |-> p \o a \o <<".">> \o b \o <<".">> \o c \o x] :
        p \in Prefixes, a \in MajorMinorStrs, b \in MajorMinorStrs,
        c \in PatchStrs, x \in Suffixes}
    \cup
    {[kind |-> "version", pfx |-> <<>>, major |-> <<>>, minor |-> <<>>,
      patch |-> <<>>, suffix |-> <<>>, tag |-> t] :
        t \in {<<>>, <<"v">>, <<"1", ".", "2">>, <<"v", "v", "1", ".", "2", ".", "3">>}}

BranchNames == {"main", "dev", "fix", "x", "release"}
BranchLists(n) ==
    UNION {{p \in [1..k -> BranchNames] : \A i, j \in 1..k : i # j => p[i] # p[j]} :
              k \in 0..n}

\* a repository with many branches, listed from any branch on
ManyBranches == <<"dev", "fix", "main", "release", "hotfix", "master", "x">>
Rotations(base) ==
    {[i \in 1..Len(base) |-> base[((i + k - 1) % Len(base)) + 1]] :
        k \in 0..(Len(base) - 1)}

SortInputs ==
    {[kind |-> "sort", branches |-> bs, head |-> h] :
        bs \in BranchLists(MaxBranches) \cup Rotations(ManyBranches),
        h \in BranchNames \cup {"HEAD"}}

ApplyParse ==
    /\ fin.kind = "parse"
    /\ fout = None
    /\ fout' = parseReleaseMsg(fin.text)
    /\ UNCHANGED <<fin, runVars>>

ApplyNotes ==
    /\ fin.kind = "notes"
    /\ fout = None
    /\ LET text == releaseNotes(fin.title, fin.commits)
       IN  fout' = [text |-> text, parsed |-> parseReleaseMsg(text)]
    /\ UNCHANGED <<fin, runVars>>

ApplyVersion ==
    /\ fin.kind = "version"
    /\ fout = None
    /\ fout' = nextVersion(fin.tag)
    /\ UNCHANGED <<fin, runVars>>

\* lines a ~/.gitconfig is made of
githubHeader == <<"[">> \o github \o <<"]">>
tokenLine == <<"\t", "t", "o", "k", "e", "n", " ", "=", " ", "t">>
ConfigLines ==
    {githubHeader,
     <<"[", "c", "o", "r", "e", "]">>,
     <<"[", "a", " ", "\"", "b", "\"", "]">>,
     tokenLine,
     <<"\t", "u", "s", "e", "r", " ", "=", " ", "u">>,
     <<"#", "#", "#">>,
     <<>>}
ConfigFiles == UNION {[1..k -> ConfigLines] : k \in 0..MaxConfigLines}
ConfigInputs == {[kind |-> "config", lines |-> ls] : ls \in ConfigFiles}

ApplyConfig ==
    /\ fin.kind = "config"
    /\ fout = None
    /\ fout' = parseConfig(Join(fin.lines, NL))
    /\ UNCHANGED <<fin, runVars>>

ApplySort ==
    /\ fin.kind = "sort"
    /\ fout = None
    /\ \E p \in sortBranches(fin.branches, fin.head) : fout' = [sorted |-> p]
    /\ UNCHANGED <<fin, runVars>>

RunIdle ==
    /\ pc = "idle" /\ outcome = "Idle" /\ ret = Nil /\ trace = <<>> /\ env = Nil /\ gor = Nil
    /\ err = Nil /\ latest = Nil /\ branches = <<>> /\ target = Nil
    /\ version = <<>> /\ compare = Nil /\ tagName = <<>> /\ data = Nil
    /\ msg = Nil /\ release = Nil

FnInit ==
    /\ fin \in ParseInputs \cup NotesInputs \cup VersionInputs \cup SortInputs
              \cup ConfigInputs
    /\ fout = None
    /\ RunIdle

FnNext ==
    \/ ApplyParse
    \/ ApplyNotes
    \/ ApplyVersion
    \/ ApplySort
    \/ ApplyConfig

FnSpec == FnInit /\ [][FnNext]_vars

(***************************************************************************)
(* One run of the command: main, then do, step by step.                    *)
(* A run ends Submitted (release created), Aborted (do returns nil without *)
(* creating anything, exit 0), Failed (panic with an error value: main's   *)
(* panic(err) and the must... helpers, exit non-zero) or Crashed (a Go     *)
(* run-time panic such as index out of range, exit non-zero).              *)
(***************************************************************************)
Error(ctx) == [ctx |-> ctx]

End(how) == pc' = "done" /\ outcome' = how /\ ret' = ret

\* return err: main panics with it
Fail(e) == pc' = "done" /\ outcome' = "Failed" /\ ret' = e

Goto(next) == pc' = next /\ outcome' = outcome /\ ret' = ret

RunHeads == {"main", "HEAD"}
RunBranchNames == {"main", "dev"}
RunBranchLists ==
    UNION {{p \in [1..k -> RunBranchNames] : \A i, j \in 1..k : i # j => p[i] # p[j]} :
              k \in 0..MaxRunBranches}
RunTags == {<<"v", "1", ".", "2", ".", "9">>, <<"1", ".", "0", ".", "0">>, <<"x">>}
Commit1 == [SHA |-> <<"a", "1">>, Message |-> <<"F", "i", "x">>, Author |-> <<"A">>]
Commit2 == [SHA |-> <<"b", "2">>, Message |-> <<"a", NL, "b">>, Author |-> <<"B">>]
\* the commit a branch of the remote points at
headCommit(name) ==
    IF name = "main" THEN Commit2
    ELSE [SHA |-> <<"d", "3">>, Message |-> <<"F", "i", "x">>, Author |-> <<"A">>]
\* what the compare API answers for head = the branch: the commits of the
\* branch that the base lacks, oldest first, so the last one is its head
CompareResults(name) ==
    {[Status |-> "ahead", Commits |-> <<headCommit(name)>>],
     [Status |-> "ahead", Commits |-> <<Commit1, headCommit(name)>>],
     [Status |-> "diverged", Commits |-> <<headCommit(name)>>],
     [Status |-> "identical", Commits |-> <<>>],
     [Status |-> "behind", Commits |-> <<>>]}
\* the errors a prompt returns instead of an answer
PromptErrors == {"ErrInterrupt", "ErrEOF", "ErrOther"}

\* every error of a prompt taken as a failure
cancelOutcomeFailed(e) == "Failed"

\* err == promptui.ErrInterrupt || err == promptui.ErrEOF: return nil
cancelOutcome(e) == IF e \in {"ErrInterrupt", "ErrEOF"} THEN "Aborted" ELSE "Failed"

\* the test of latest left out
noPreviousReleaseNever(l) == FALSE

\* latest == nil
noPreviousRelease(l) == l = Nil

\* the first commit of the comparison in the place of the last
targetCommitishFirst(commits) == commits[1].SHA

\* *compare.Commits[len(compare.Commits)-1].SHA
targetCommitish(commits) == commits[Len(commits)].SHA

Init ==
    /\ pc = "main" /\ outcome = "Running" /\ ret = Nil /\ trace = <<>> /\ env = Nil
    /\ gor = Nil /\ err = Nil /\ latest = Nil /\ branches = <<>> /\ target = Nil
    /\ version = <<>> /\ compare = Nil /\ tagName = <<>> /\ data = Nil
    /\ msg = Nil /\ release = Nil
    /\ fin = None /\ fout = None

\* main: mustBeGitRepo and mustFindEditor panic on a configuration error
Main ==
    /\ pc = "main"
    /\ \E isRepo \in BOOLEAN, editorFound \in BOOLEAN :
           IF isRepo /\ editorFound THEN Goto("getToken") ELSE End("Failed")
    /\ UNCHANGED <<trace, env, gor, err, latest, branches, target, version,
                   compare, tagName, data, msg, release, fnVars>>

\* getToken: the token of the [github] section of ~/.gitconfig, "" when absent
GetToken ==
    /\ pc = "getToken"
    /\ \/ /\ Fail(Error("getToken"))
          /\ env' = env
       \/ \E lines \in ConfigFiles :
              /\ env' = [token |-> parseConfig(Join(lines, NL)).token]
              /\ Goto("getCurrentRepo")
    /\ UNCHANGED <<trace, gor, err, latest, branches, target, version,
                   compare, tagName, data, msg, release, fnVars>>

\* [a-z-] of reRepo
repoChars ==
    {"a", "b", "c", "d", "e", "f", "g", "h", "i", "j", "k", "l", "m", "n",
     "o", "p", "q", "r", "s", "t", "u", "v", "w", "x", "y", "z", "-"}

\* reRepo = ([a-z-]+)/([a-z-]+), leftmost match from position i on; owner
\* and repo stay "" when nothing matches
RECURSIVE findRepo(_, _)
findRepo(s, i) ==
    IF i > Len(s) THEN [owner |-> <<>>, repo |-> <<>>]
    ELSE LET a == runLen(s, i, repoChars)
             b == runLen(s, i + a + 1, repoChars)
         IN  IF a >= 1 /\ i + a <= Len(s) /\ s[i + a] = "/" /\ b >= 1
             THEN [owner |-> SubSeq(s, i, i + a - 1),
                   repo |-> SubSeq(s, i + a + 1, i + a + b)]
             ELSE findRepo(s, i + 1)

\* what git ls-remote --get-url origin prints
RemoteURLs ==
    {<<"g", ":", "o", "/", "r">>, <<"g", ":", "O", "/", "R">>, <<>>}

\* getCurrentRepo, then newClient; the goroutines are started
GetCurrentRepo ==
    /\ pc = "getCurrentRepo"
    /\ \/ /\ Fail(Error("getCurrentRepo"))
          /\ UNCHANGED <<env, gor>>
       \/ \E url \in RemoteURLs, head \in RunHeads :
              /\ env' = [token |-> env.token,
                         owner |-> findRepo(url, 1).owner,
                         repo |-> findRepo(url, 1).repo,
                         head |-> head]
              /\ gor' = [pc1 |-> "call", pc2 |-> "call", e1 |-> Nil, e2 |-> Nil]
              /\ Goto("getBranchesAndReleases")
    /\ UNCHANGED <<trace, err, latest, branches, target, version,
                   compare, tagName, data, msg, release, fnVars>>

\* first goroutine: latest, e = client.getLatestRelease()
LatestCall ==
    /\ pc = "getBranchesAndReleases" /\ gor.pc1 = "call"
    /\ trace' = Append(trace, "getLatestRelease")
    /\ \/ \E tag \in RunTags :
              /\ latest' = [TagName |-> tag]
              /\ gor' = [gor EXCEPT !.pc1 = "test"]
       \/ /\ latest' = Nil
          /\ gor' = [gor EXCEPT !.pc1 = "test",
                                !.e1 = Error("unable to get latest release")]
    /\ UNCHANGED <<pc, outcome, ret, env, err, branches, target, version,
                   compare, tagName, data, msg, release, fnVars>>

\* first goroutine: if err == nil
LatestTest ==
    /\ pc = "getBranchesAndReleases" /\ gor.pc1 = "test"
    /\ gor' = [gor EXCEPT !.pc1 = IF err = Nil THEN "store" ELSE "done"]
    /\ UNCHANGED <<pc, outcome, ret, trace, env, err, latest, branches, target, version,
                   compare, tagName, data, msg, release, fnVars>>

\* first goroutine: err = e
LatestStore ==
    /\ pc = "getBranchesAndReleases" /\ gor.pc1 = "store"
    /\ err' = gor.e1
    /\ gor' = [gor EXCEPT !.pc1 = "done"]
    /\ UNCHANGED <<pc, outcome, ret, trace, env, latest, branches, target, version,
                   compare, tagName, data, msg, release, fnVars>>

\* second goroutine: branches, e = client.listBranches()
BranchesCall ==
    /\ pc = "getBranchesAndReleases" /\ gor.pc2 = "call"
    /\ trace' = Append(trace, "listBranches")
    /\ \/ \E bs \in RunBranchLists :
              /\ branches' = bs
              /\ gor' = [gor EXCEPT !.pc2 = "test"]
       \/ /\ branches' = <<>>
          /\ gor' = [gor EXCEPT !.pc2 = "test",
                                !.e2 = Error("unable to list branches")]
    /\ UNCHANGED <<pc, outcome, ret, env, err, latest, target, version,
                   compare, tagName, data, msg, release, fnVars>>

\* second goroutine: if err == nil
BranchesTest ==
    /\ pc = "getBranchesAndReleases" /\ gor.pc2 = "test"
    /\ gor' = [gor EXCEPT !.pc2 = IF err = Nil THEN "store" ELSE "done"]
    /\ UNCHANGED <<pc, outcome, ret, trace, env, err, latest, branches, target, version,
                   compare, tagName, data, msg, release, fnVars>>

\* second goroutine: err = e
BranchesStore ==
    /\ pc = "getBranchesAndReleases" /\ gor.pc2 = "store"
    /\ err' = gor.e2
    /\ gor' = [gor EXCEPT !.pc2 = "done"]
    /\ UNCHANGED <<pc, outcome, ret, trace, env, latest, branches, target, version,
                   compare, tagName, data, msg, release, fnVars>>

\* wg.Wait() and the return; do: the error check, sortBranches, latest == nil
Join2 ==
    /\ pc = "getBranchesAndReleases" /\ gor.pc1 = "done" /\ gor.pc2 = "done"
    /\ IF err # Nil THEN Fail(err) /\ branches' = branches
       ELSE /\ \E p \in sortBranches(branches, env.head) : branches' = p
            /\ IF noPreviousRelease(latest) THEN Fail(Error("no previous release"))
               ELSE Goto("selectTarget")
    /\ UNCHANGED <<trace, env, gor, err, latest, target, version,
                   compare, tagName, data, msg, release, fnVars>>

\* selectTarget: the prompt over the sorted branches
SelectTarget ==
    /\ pc = "selectTarget"
    /\ \/ \E e \in PromptErrors :
              /\ trace' = trace \o <<"selectTarget", e>>
              /\ IF cancelOutcome(e) = "Aborted" THEN End("Aborted")
                 ELSE Fail(Error(e))
              /\ target' = target
       \/ \E i \in 1..Len(branches) :
              /\ trace' = Append(trace, "selectTarget")
              /\ target' = [Name |-> branches[i]]
              /\ Goto("nextVersion")
    /\ UNCHANGED <<env, gor, err, latest, branches, version,
                   compare, tagName, data, msg, release, fnVars>>

\* the suggested tag; panic(err) when the last tag is no semantic version
InferVersion ==
    /\ pc = "nextVersion"
    /\ LET r == nextVersion(latest.TagName)
       IN  IF r.panic THEN End("Failed") /\ version' = version
           ELSE Goto("compare") /\ version' = r.version
    /\ UNCHANGED <<trace, env, gor, err, latest, branches, target,
                   compare, tagName, data, msg, release, fnVars>>

\* the tag prompt left out: from the comparison straight to the editor
afterCompareNoPrompt(status) == IF status = "behind" THEN "done" ELSE "edit"

\* if *compare.Status == "behind" { return nil }, else on to the tag prompt
afterCompare(status) == IF status = "behind" THEN "done" ELSE "tagPrompt"

\* client.compare(lastRel, target) and the test of its status
Compare ==
    /\ pc = "compare"
    /\ \/ /\ trace' = trace \o <<"compare", "compareFailed">>
          /\ Fail(Error("unable to compare commits"))
          /\ compare' = compare
       \/ \E c \in CompareResults(target.Name) :
              /\ trace' = Append(trace, "compare")
              /\ compare' = c
              /\ IF afterCompare(c.Status) = "done" THEN End("Aborted")
                 ELSE Goto(afterCompare(c.Status))
    /\ UNCHANGED <<env, gor, err, latest, branches, target, version,
                   tagName, data, msg, release, fnVars>>

\* what the user may leave in the tag prompt: the default, nothing, another tag
TagInputs(default) == {default, <<>>, <<"v", "9">>}

TagPrompt ==
    /\ pc = "tagPrompt"
    /\ \/ \E e \in PromptErrors :
              /\ trace' = trace \o <<"tagPrompt", e>>
              /\ IF cancelOutcome(e) = "Aborted" THEN End("Aborted")
                 ELSE Fail(Error(e))
              /\ tagName' = tagName
       \/ \E t \in TagInputs(version) :
              /\ trace' = trace \o <<"tagPrompt", "tagEntered">>
              /\ tagName' = t
              /\ Goto("edit")
    /\ UNCHANGED <<env, gor, err, latest, branches, target, version,
                   compare, data, msg, release, fnVars>>

\* what can go wrong inside ed.edit: WriteFile, cmd.Run, ReadFile
EditFaults == {"none", "write", "run", "read"}

\* the events of ed.edit: the editor is launched unless the write failed
editEvents(fault) ==
    CASE fault = "write" -> <<"writeFailed">>
      [] fault = "run" -> <<"editor", "editorFailed">>
      [] fault = "read" -> <<"editor", "readFailed">>
      [] OTHER -> <<"editor">>

\* the error of cmd.Run not tested
editErrorIgnoreExit(fault) ==
    CASE fault = "write" -> Error("unable to write release message")
      [] fault = "read" -> Error("ReadFile")
      [] OTHER -> Nil

\* the error ed.edit returns before it parses anything, Nil when none
editError(fault) ==
    CASE fault = "write" -> Error("unable to write release message")
      [] fault = "run" -> Error("edit error")
      [] fault = "read" -> Error("ReadFile")
      [] OTHER -> Nil

\* ed.edit(releaseNotes(tagName, compare.Commits)): write the scratch file,
\* run the editor, read the file back, filter and split it
Edit ==
    /\ pc = "edit"
    /\ \E fault \in EditFaults :
           /\ trace' = trace \o editEvents(fault)
           /\ IF editError(fault) # Nil
              THEN Fail(editError(fault)) /\ UNCHANGED <<data, msg>>
              ELSE \E text \in Texts(MaxRunLen)
                              \cup {releaseNotes(tagName, compare.Commits)} :
                      /\ data' = text
                      /\ msg' = parseReleaseMsg(text)
                      /\ IF msg'.panic THEN End("Crashed") ELSE Goto("submit")
    /\ UNCHANGED <<env, gor, err, latest, branches, target, version,
                   compare, tagName, release, fnVars>>

\* if title == "" || len(body) == 0
isEmptyMessageBoth(title, body) == title = <<>> /\ Len(body) = 0

isEmptyMessage(title, body) == title = <<>> \/ Len(body) = 0

\* the emptiness test, then client.createRelease with the last commit's SHA
Submit ==
    /\ pc = "submit"
    /\ IF isEmptyMessage(msg.title, msg.body)
       THEN End("Aborted") /\ UNCHANGED <<trace, release>>
       ELSE IF Len(compare.Commits) = 0
       THEN End("Crashed") /\ UNCHANGED <<trace, release>>  \* Commits[-1]
       ELSE /\ release' = [title |-> msg.title, tag |-> tagName,
                           target |-> targetCommitish(compare.Commits),
                           body |-> msg.body]
            /\ \/ /\ trace' = Append(trace, "createRelease")
                  /\ End("Submitted")
               \/ /\ trace' = trace \o <<"createRelease", "createReleaseFailed">>
                  /\ Fail(Error("unable to create new release"))
    /\ UNCHANGED <<env, gor, err, latest, branches, target, version,
                   compare, tagName, data, msg, fnVars>>

Next ==
    \/ Main
    \/ GetToken
    \/ GetCurrentRepo
    \/ LatestCall
    \/ LatestTest
    \/ LatestStore
    \/ BranchesCall
    \/ BranchesTest
    \/ BranchesStore
    \/ Join2
    \/ SelectTarget
    \/ InferVersion
    \/ Compare
    \/ TagPrompt
    \/ Edit
    \/ Submit

Spec == Init /\ [][Next]_vars

(***************************************************************************)
(* Properties of the pure functions, checked under FnSpec.                 *)
(***************************************************************************)
Parsed == fin.kind = "parse" /\ fout # None
InputLines == Split(fin.text, NL)
StartsWithHash(line) == Len(line) > 0 /\ line[1] = "#"
\* any number of leading spaces, then '#'
IndentedHash(line) ==
    \E k \in 0..Len(line) :
        /\ k < Len(line)
        /\ \A i \in 1..k : line[i] = " "
        /\ line[k + 1] = "#"
\* '#' at the start of the line or after one leading space: what the filter drops
FilteredOut(line) ==
    \/ StartsWithHash(line)
    \/ Len(line) > 1 /\ line[1] = " " /\ line[2] = "#"
KeptLine(line) == ~FilteredOut(line)
EmptyResult == [panic |-> FALSE, title |-> <<>>, body |-> <<>>]

\* C4: parsing the text that releaseNotes renders, unedited, gives title ""
\* and body "", for every title and every commit list, the empty list and
\* multi-line commit messages included.
C4_UneditedTemplateParsesEmpty ==
    (fin.kind = "notes" /\ fout # None) => fout.parsed = EmptyResult

C4_Witness ==
    /\ fin.kind = "notes" /\ fout # None
    /\ Len(fin.commits) = 2
    /\ fin.commits[1].Message = <<"a", NL, "b">>
    /\ fin.title = <<"v", "1", ".", "0", ".", "1">>
    /\ fout.parsed.title = <<>>
    /\ Len(Split(fout.text, NL)) = 11

\* C5: a text in which every line starts with '#', and the empty text, parse
\* to title "" and body "" as a normal result.
C5_AllCommentsParseEmpty ==
    (/\ Parsed
     /\ \/ fin.text = <<>>
        \/ \A i \in 1..Len(InputLines) : StartsWithHash(InputLines[i]))
        => fout = EmptyResult

\* C7: a line made of any number of leading spaces followed by '#' is in
\* neither the title nor the body.
C7_IndentedCommentsDropped ==
    (Parsed /\ ~fout.panic) =>
        \A i \in 1..Len(InputLines) :
            IndentedHash(InputLines[i]) =>
                /\ fout.title # InputLines[i]
                /\ \A k \in 1..Len(Split(fout.body, NL)) :
                       Split(fout.body, NL)[k] # InputLines[i]

RECURSIVE IncDec(_)
IncDec(s) ==
    IF Len(s) = 0 THEN <<"1">>
    ELSE LET front == SubSeq(s, 1, Len(s) - 1)
             last == s[Len(s)]
         IN  IF last = "9" THEN IncDec(front) \o <<"0">>
             ELSE front \o <<digitChar(digitVal(last) + 1)>>

NoLeadingZero(s) == Len(s) > 0 /\ (Len(s) > 1 => s[1] # "0")
ValidSuffixes == {<<>>, <<"-", "b">>, <<"+", "1">>, <<"-", "b", "+", "1">>}
ValidTag ==
    /\ fin.kind = "version"
    /\ NoLeadingZero(fin.major) /\ NoLeadingZero(fin.minor) /\ NoLeadingZero(fin.patch)
    /\ fin.suffix \in ValidSuffixes

\* C9: for a valid semantic version, with or without the prefix "v", the
\* suggested tag is prefix, major, minor unchanged and patch plus one.
C9_NextVersionBumpsPatch ==
    (ValidTag /\ fout # None) =>
        LET core == fin.pfx \o fin.major \o <<".">> \o fin.minor \o <<".">>
                        \o IncDec(fin.patch)
        IN  /\ ~fout.panic
            /\ HasPrefix(fout.version, core)
            /\ (Len(fout.version) > Len(core) =>
                    fout.version[Len(core) + 1] \notin Numbers)
            /\ (HasPrefix(fout.version, <<"v">>) <=> fin.pfx = <<"v">>)

C9_Witness ==
    /\ fin.kind = "version" /\ fout # None
    /\ fin.tag = <<"v", "2", ".", "0", ".", "9">>
    /\ fout.version = <<"v", "2", ".", "0", ".", "1", "0">>

\* C10: when the current branch is in the list, it is first after
\* sortBranches, and a branch never comes after one with a longer name.
C10_HeadFirstThenByLength ==
    (/\ fin.kind = "sort" /\ fout # None
     /\ \E i \in 1..Len(fin.branches) : fin.branches[i] = fin.head) =>
        /\ fout.sorted[1] = fin.head
        /\ \A i, j \in 1..Len(fout.sorted) :
               (/\ fout.sorted[i] # fin.head /\ fout.sorted[j] # fin.head
                /\ Len(fout.sorted[i]) < Len(fout.sorted[j])) => i < j

C10_Witness ==
    /\ fin.kind = "sort" /\ fout # None
    /\ fin.branches = <<"x", "release", "main">>
    /\ fin.head = "release"
    /\ fout.sorted = <<"release", "x", "main">>

(***************************************************************************)
(* Properties of the run, checked under Spec.                              *)
(***************************************************************************)
Happened(event) == \E i \in 1..Len(trace) : trace[i] = event
Joined == gor # Nil /\ pc # "getBranchesAndReleases"
AllSpaces(line) == \A i \in 1..Len(line) : line[i] = " "

\* C1: createRelease never receives an empty title or an empty body, and a
\* run whose parsed title or parsed body is empty ends Aborted without a
\* create-release call.
C1_NoEmptyReleaseSubmitted ==
    /\ release # Nil => (release.title # <<>> /\ release.body # <<>>)
    /\ (msg # Nil /\ ~msg.panic /\ (msg.title = <<>> \/ msg.body = <<>>)) =>
           /\ release = Nil
           /\ ~Happened("createRelease")
           /\ pc = "done" => outcome = "Aborted"

C1_Witness ==
    /\ pc = "done" /\ outcome = "Aborted"
    /\ msg # Nil /\ msg.title = <<"a">> /\ msg.body = <<>>
    /\ compare.Status = "ahead"
    /\ release = Nil

\* C2: when at least one of the two reads returned an error,
\* getBranchesAndReleases returns a non-nil error and the run ends Failed
\* without the target prompt.
C2_ReadErrorFailsRun ==
    (Joined /\ (gor.e1 # Nil \/ gor.e2 # Nil)) =>
        /\ err # Nil
        /\ ~Happened("selectTarget")
        /\ pc = "done" /\ outcome = "Failed"

\* C3: a comparison that is not strictly ahead (identical, behind, diverged
\* without ahead-commits) ends the run Aborted: no tag prompt, no editor,
\* no create-release call.
C3_NotAheadAborts ==
    (/\ compare # Nil
     /\ \/ compare.Status \in {"identical", "behind"}
        \/ compare.Status = "diverged" /\ Len(compare.Commits) = 0) =>
        /\ pc = "done" /\ outcome = "Aborted"
        /\ ~Happened("tagPrompt") /\ ~Happened("editor")
        /\ ~Happened("createRelease")

\* C6: when the lines that are not comments are a title followed only by
\* blank lines, the body is the empty string, the run ends Aborted and no
\* release is created.
C6_BlankBodyIsEmpty ==
    LET kept == SelectSeq(Split(data, NL), LAMBDA l : ~IndentedHash(l))
    IN  (/\ msg # Nil /\ Len(kept) > 0 /\ ~AllSpaces(kept[1])
         /\ \A i \in 2..Len(kept) : AllSpaces(kept[i])) =>
            /\ ~msg.panic /\ msg.body = <<>>
            /\ release = Nil
            /\ pc = "done" => outcome = "Aborted"

Interrupted == Happened("ErrInterrupt") \/ Happened("ErrEOF")

\* C11: an interrupt (Ctrl-C, EOF) at the target prompt or at the tag prompt
\* ends the run Aborted: do returns nil, and no release is created.
C11_InterruptAborts ==
    Interrupted =>
        /\ pc = "done" /\ outcome = "Aborted"
        /\ release = Nil /\ ~Happened("createRelease")

C11_Witness ==
    /\ Happened("tagPrompt") /\ Happened("ErrInterrupt")
    /\ compare.Status = "ahead"
    /\ outcome = "Aborted"

\* C12: the release of a Submitted run carries the parsed title and body,
\* the tag entered at the prompt, and the head commit of the selected branch.
C12_SubmittedReleaseFields ==
    outcome = "Submitted" =>
        /\ release.title = msg.title
        /\ release.body = msg.body
        /\ release.tag = tagName
        /\ release.target = headCommit(target.Name).SHA

C12_Witness ==
    /\ outcome = "Submitted"
    /\ tagName = <<"v", "9">> /\ version # tagName
    /\ release.tag = <<"v", "9">>
    /\ Len(compare.Commits) = 2
    /\ target.Name = "dev" /\ release.target = <<"d", "3">>

\* C14: when there is no latest release after the two reads, the run ends
\* Failed: no target prompt, no compare, no create-release call.
C14_NoPreviousReleaseFails ==
    (Joined /\ latest = Nil) =>
        /\ pc = "done" /\ outcome = "Failed"
        /\ ~Happened("selectTarget") /\ ~Happened("compare")
        /\ ~Happened("createRelease")

C14_Witness ==
    /\ Joined /\ latest = Nil /\ err = Nil
    /\ gor.e1 # Nil
    /\ outcome = "Failed"

\* C17: when do arrives at the create-release call (the message is not
\* empty), the commit list of the comparison is not empty.
C17_CommitsNonEmptyAtCreate ==
    (pc = "submit" /\ ~isEmptyMessage(msg.title, msg.body)) =>
        Len(compare.Commits) > 0

\* C20: an empty tag entered at the tag prompt ends the run Aborted: no
\* editor, no create-release call.
C20_EmptyTagAborts ==
    (Happened("tagEntered") /\ tagName = <<>>) =>
        /\ pc = "done" /\ outcome = "Aborted"
        /\ ~Happened("editor") /\ ~Happened("createRelease")

IsHeader(line) == Len(line) > 0 /\ line[1] = "["

IsTokenLine(line) == parseValue(line).key = <<"t", "o", "k", "e", "n">>

\* line j is a token line, its nearest header above is [github], and no
\* later line sets the token again or opens [github] again
GithubToken(ls, j) ==
    /\ IsTokenLine(ls[j])
    /\ \E h \in 1..(j - 1) :
           /\ ls[h] = githubHeader
           /\ \A k \in (h + 1)..(j - 1) : ~IsHeader(ls[k])
    /\ \A k \in (j + 1)..Len(ls) : ~IsTokenLine(ls[k]) /\ ls[k] # githubHeader

\* C15: parseConfig gives a key/value line to the section whose header most
\* recently precedes it, also across comment and blank lines: the token of
\* the [github] section is returned whenever the section holds one.
C15_TokenOfGithubSection ==
    (fin.kind = "config" /\ fout # None) =>
        \A j \in 1..Len(fin.lines) :
            GithubToken(fin.lines, j) => fout.token = parseValue(fin.lines[j]).val

RemoteCalled ==
    \/ Happened("getLatestRelease") \/ Happened("listBranches")
    \/ Happened("compare") \/ Happened("createRelease")

\* C13: a run whose user config holds no access credential makes no call to
\* the remote repository service, and ends Failed.
C13_NoCredentialFailsBeforeNetwork ==
    (env # Nil /\ env.token = <<>>) =>
        /\ ~RemoteCalled
        /\ (pc = "done" => outcome = "Failed")

\* C16: in getBranchesAndReleases the first error stored is kept: no later
\* step of either read replaces it, by nil or by a second error.
C16_FirstErrorWins == [][err # Nil => err' = err]_vars

\* C18: for a last-release tag with prerelease or build metadata the
\* suggested tag is prefix, major.minor.(patch+1) and nothing more.
C18_NextTagDropsMetadata ==
    (ValidTag /\ fin.suffix # <<>> /\ fout # None) =>
        /\ ~fout.panic
        /\ fout.version = fin.pfx \o fin.major \o <<".">> \o fin.minor
                              \o <<".">> \o IncDec(fin.patch)

PosIn(p, name) == CHOOSE k \in 1..Len(p) : p[k] = name

\* C19: sortBranches is stable: two branches other than the current one
\* whose names have the same length keep their input order in the output.
C19_SortBranchesStable ==
    (fin.kind = "sort" /\ fout # None) =>
        \A i, j \in 1..Len(fin.branches) :
            (/\ i < j
             /\ fin.branches[i] # fin.head /\ fin.branches[j] # fin.head
             /\ Len(fin.branches[i]) = Len(fin.branches[j])) =>
                PosIn(fout.sorted, fin.branches[i]) < PosIn(fout.sorted, fin.branches[j])

NoOwnerRepo ==
    /\ env # Nil /\ "owner" \in DOMAIN env
    /\ env.owner = <<>> /\ env.repo = <<>>

\* C21: when the remote URL does not match the owner/repo pattern, the run
\* ends Failed and no remote call is made with the empty owner and repo.
C21_NoOwnerRepoFails ==
    NoOwnerRepo =>
        /\ ~RemoteCalled
        /\ (pc = "done" => outcome = "Failed")

FailedOps ==
    (IF gor # Nil /\ gor.e1 # Nil THEN {gor.e1} ELSE {})
    \cup (IF gor # Nil /\ gor.e2 # Nil THEN {gor.e2} ELSE {})
    \cup (IF Happened("compareFailed")
          THEN {Error("unable to compare commits")} ELSE {})
    \cup (IF Happened("createReleaseFailed")
          THEN {Error("unable to create new release")} ELSE {})

\* C22: when a remote operation (latest release, branches, compare, create
\* release) has failed, the run ends Failed and the error do returns is that
\* operation's error with its context string.
C22_RemoteErrorReachesTop ==
    (pc = "done" /\ FailedOps # {}) =>
        /\ outcome = "Failed"
        /\ ret \in FailedOps

\* C23: when the remote lists no branch, the run stops before the target
\* selection: no target prompt, no compare, no create-release call.
C23_EmptyBranchListStops ==
    (Joined /\ gor.e2 = Nil /\ branches = <<>>) =>
        /\ ~Happened("selectTarget")
        /\ ~Happened("compare") /\ ~Happened("createRelease")

EditFailed ==
    Happened("writeFailed") \/ Happened("editorFailed") \/ Happened("readFailed")

\* C24: when the scratch file cannot be written or read back, or the editor
\* exits non-zero, nothing is parsed, the run ends Failed with the error of
\* the edit step, and no create-release call is made.
C24_EditFailureFails ==
    EditFailed =>
        /\ data = Nil /\ msg = Nil
        /\ pc = "done" /\ outcome = "Failed"
        /\ ret \in {editError(f) : f \in EditFaults \ {"none"}}
        /\ release = Nil /\ ~Happened("createRelease")

C24_Witness ==
    /\ Happened("editor") /\ Happened("editorFailed")
    /\ ret = Error("edit error")
    /\ tagName = <<"v", "9">>
    /\ outcome = "Failed"

(***************************************************************************)
(* The commit lines of a rendered template, and the order of a run.        *)
(***************************************************************************)
CommitsMarker == <<"#", "*", "*", "C", "o", "m", "m", "i", "t", "s", "*", "*">>

\* the lines of the text below "#**Commits**" and "#", without the empty
\* piece after the last newline
CommitSection(text) ==
    LET ls == Split(text, NL)
        m == CHOOSE i \in 1..Len(ls) :
                 ls[i] = CommitsMarker /\ \A j \in 1..(i - 1) : ls[j] # CommitsMarker
    IN  SubSeq(ls, m + 2, Len(ls) - 1)

\* #* [<id>] - <first line of the message> (<author>)
ExpectedLine(c) ==
    <<"#", "*", " ", "[">> \o c.SHA \o <<"]", " ", "-", " ">>
        \o Split(c.Message, NL)[1] \o <<" ", "(">> \o c.Author \o <<")">>

Rendered == fin.kind = "notes" /\ fout # None

\* C25 as stated: one commented line per commit, in the order of the input.
C25_CommitLinesInInputOrder ==
    Rendered =>
        CommitSection(fout.text) =
            [i \in 1..Len(fin.commits) |-> ExpectedLine(fin.commits[i])]

\* C25, amended: one commented line per commit, in the reverse of the order
\* of the input: the last commit of the comparison comes first.
C25_CommitLinesNewestFirst ==
    Rendered =>
        LET n == Len(fin.commits)
        IN  CommitSection(fout.text) =
                [i \in 1..n |-> ExpectedLine(fin.commits[n + 1 - i])]

C25_Witness ==
    /\ Rendered
    /\ Len(fin.commits) = 2
    /\ fin.commits[1].Message = <<"F", "i", "x">>
    /\ fin.commits[2].Message = <<"a", NL, "b">>
    /\ CommitSection(fout.text) =
           << <<"#", "*", " ", "[", "a", "1", "]", " ", "-", " ", "a", " ", "(", "A", ")">>,
              <<"#", "*", " ", "[", "a", "1", "]", " ", "-", " ", "F", "i", "x", " ", "(", "A", ")">> >>

Count(event) == Cardinality({i \in 1..Len(trace) : trace[i] = event})
Pos(event) == CHOOSE i \in 1..Len(trace) : trace[i] = event
RemoteEvents == {"getLatestRelease", "listBranches", "compare", "createRelease"}

\* C26: create-release is called at most once, after both reads were
\* joined, the target selected, the comparison returned, the tag entered and
\* the edited text parsed, in this order; no remote call comes after it.
C26_CreateReleaseOnceAndLast ==
    Happened("createRelease") =>
        /\ Count("createRelease") = 1
        /\ Joined
        /\ Happened("getLatestRelease") /\ Happened("listBranches")
        /\ Happened("selectTarget") /\ Happened("compare")
        /\ Happened("tagEntered") /\ Happened("editor")
        /\ Pos("getLatestRelease") < Pos("selectTarget")
        /\ Pos("listBranches") < Pos("selectTarget")
        /\ Pos("selectTarget") < Pos("compare")
        /\ Pos("compare") < Pos("tagEntered")
        /\ Pos("tagEntered") < Pos("editor")
        /\ Pos("editor") < Pos("createRelease")
        /\ target # Nil /\ compare # Nil /\ msg # Nil /\ ~msg.panic
        /\ \A k \in (Pos("createRelease") + 1)..Len(trace) : trace[k] \notin RemoteEvents
        /\ pc = "done"

C26_Witness ==
    /\ outcome = "Submitted"
    /\ trace = <<"listBranches", "getLatestRelease", "selectTarget", "compare",
                 "tagPrompt", "tagEntered", "editor", "createRelease">>

=============================================================================
